---- MODULE Spec2Model ----
(***************************************************************************)
(* Model of symbios-turtle-3d: TurtleInterpreter::build_skeleton, the      *)
(* turtle state it drives, and Skeleton::add_node / add_prop.              *)
(*                                                                         *)
(* Numbers.  An f32 that carries a length, a width or a colour channel is  *)
(* a record [fin, v]: v counts thousandths (1.0 is 1000), fin = FALSE is   *)
(* a non-finite value (NaN or an infinity).  Squared distances are then in *)
(* millionths.  An angle in radians counts quarter turns (pi/2), an angle  *)
(* in degrees counts thousandths of a degree like every other parameter.   *)
(* A rotation is the 3x3 matrix of the quaternion, kept as its three       *)
(* columns, with the same fin flag; the model's angles are multiples of a  *)
(* quarter turn, so every finite rotation is exact.                        *)
(***************************************************************************)
EXTENDS Integers, Sequences, FiniteSets, TLC

VARIABLES op_map, config, len, window, stream, i, turtle, stack, skeleton, prev,
          pc, returned, calls, old_map

vars == <<op_map, config, len, window, stream, i, turtle, stack, skeleton, prev,
          pc, returned, calls, old_map>>

\* op_map, config   the interpreter's fields
\* calls, old_map   the set_op / populate_standard_symbols calls that built
\*                  op_map, and the table before the last of them
\* len, stream, i   the instruction stream of the running build_skeleton
\*                  call: its length, its last `window` instructions that
\*                  were interpreted, the loop index
\* turtle, stack, skeleton   the locals of build_skeleton
\* prev             those locals before the last instruction
\* pc               "setup" while the table is built, "loop" inside
\*                  build_skeleton, "done" once it has returned
\* returned         the stream and the skeleton of every call that returned

\* Longest instruction stream of a build_skeleton call, over every operation.
MaxLen == 3

\* Longest stream of the branching specification (Draw, Push, Pop).
MaxBranchLen == 5

\* Longest stream of the turning specification (Draw, Spawn, the rotations).
MaxTurnLen == 3

\* Longest stream of the stack specification (Draw, Yaw, two setters, Push,
\* Pop).
MaxStackLen == 4

\* Longest stream of the rolling specification (Draw, Pitch, Roll, symbols
\* without operation).
MaxRollLen == 3

\* Longest stream of the specification of symbols without operation.
MaxIgnoreLen == 3

\* Longest stream of the loop specification (Move, Push, Pop, a failed fetch).
MaxLoopLen == 4

\* Longest stream of a call, and most calls, of the specification of
\* successive build_skeleton calls.
MaxCallLen == 1

MaxCalls == 3

\* Longest stream of the tropism specification (Draw, Move, Yaw, Pitch).
MaxTropismLen == 3

\* Longest stream of the nested-branch specification (Draw, TurnAround,
\* SetWidth, Push, Pop).
MaxLifoLen == 5

----------------------------------------------------------------------------
\* f32 values

F(n) == [fin |-> TRUE, v |-> n]

NaN == [fin |-> FALSE, v |-> 0]

Abs(n) == IF n < 0 THEN 0 - n ELSE n

\* a * b on f32: a non-finite operand poisons the product (0 * NaN is NaN).
FMulInt(a, k) == IF a.fin THEN F(a.v * k) ELSE NaN

\* f32::clamp(0.0, 1.0); NaN stays NaN.
Clamp01(a) ==
    IF ~a.fin THEN a
    ELSE IF a.v < 0 THEN F(0)
    ELSE IF a.v > 1000 THEN F(1000)
    ELSE a

\* `x as u8` / `x as u16`: truncates, saturates, NaN becomes 0.
AsUnsigned(a, max) ==
    IF ~a.fin THEN 0
    ELSE IF a.v < 0 THEN 0
    ELSE IF a.v \div 1000 > max THEN max
    ELSE a.v \div 1000

\* width / 2.0
Half(a) == IF a.fin THEN F(a.v \div 2) ELSE NaN

----------------------------------------------------------------------------
\* glam: Vec3, Mat3 / Quat restricted to quarter turns

VecAdd(a, b) == <<a[1] + b[1], a[2] + b[2], a[3] + b[3]>>

VecScale(k, a) == <<k * a[1], k * a[2], k * a[3]>>

Cross(a, b) ==
    <<a[2] * b[3] - a[3] * b[2],
      a[3] * b[1] - a[1] * b[3],
      a[1] * b[2] - a[2] * b[1]>>

\* Vec3::length for a vector along one axis (the only vectors measured here).
Length(a) == Abs(a[1]) + Abs(a[2]) + Abs(a[3])

VecX == <<1, 0, 0>>

VecY == <<0, 1, 0>>

VecZ == <<0, 0, 1>>

Basis == <<VecX, VecY, VecZ>>

MatVec(m, a) ==
    VecAdd(VecScale(a[1], m[1]), VecAdd(VecScale(a[2], m[2]), VecScale(a[3], m[3])))

MatMul(a, b) == <<MatVec(a, b[1]), MatVec(a, b[2]), MatVec(a, b[3])>>

Cos4(q) == CASE q % 4 = 0 -> 1 [] q % 4 = 2 -> -1 [] OTHER -> 0

Sin4(q) == CASE q % 4 = 1 -> 1 [] q % 4 = 3 -> -1 [] OTHER -> 0

QuatIdentity == [fin |-> TRUE, m |-> Basis]

QuatNaN == [fin |-> FALSE, m |-> Basis]

\* from_axis_angle turning the other way round.
FromAxisAngleNegSin(axis, angle) ==
    IF ~angle.fin THEN QuatNaN
    ELSE LET c == Cos4(angle.v)
             s == 0 - Sin4(angle.v)
             col(j) == VecAdd(VecScale(c, Basis[j]),
                         VecAdd(VecScale(s, Cross(axis, Basis[j])),
                                VecScale((1 - c) * axis[j], axis)))
         IN [fin |-> TRUE, m |-> <<col(1), col(2), col(3)>>]

\* Quat::from_axis_angle(axis, angle): Rodrigues' formula, column by column.
\* A non-finite angle gives sin = cos = NaN, hence a non-finite quaternion.
FromAxisAngle(axis, angle) ==
    IF ~angle.fin THEN QuatNaN
    ELSE LET c == Cos4(angle.v)
             s == Sin4(angle.v)
             col(j) == VecAdd(VecScale(c, Basis[j]),
                         VecAdd(VecScale(s, Cross(axis, Basis[j])),
                                VecScale((1 - c) * axis[j], axis)))
         IN [fin |-> TRUE, m |-> <<col(1), col(2), col(3)>>]

\* Quat * Quat
QuatMul(a, b) ==
    IF a.fin /\ b.fin THEN [fin |-> TRUE, m |-> MatMul(a.m, b.m)] ELSE QuatNaN

\* f32::to_radians on thousandths of a degree, in quarter turns.
ToRadians(d) == IF d.fin THEN F(d.v \div 90000) ELSE NaN

\* f32::to_degrees on quarter turns, in thousandths of a degree.
ToDegrees(r) == IF r.fin THEN F(r.v * 90000) ELSE NaN

\* std::f32::consts::PI, in quarter turns.
PI == F(2)

----------------------------------------------------------------------------
\* turtle.rs

PosZero == [fin |-> TRUE, v |-> <<0, 0, 0>>]

PosNaN == [fin |-> FALSE, v |-> <<0, 0, 0>>]

\* TurtleState::default().  The flat PBR fields that interpreter.rs reads
\* (roughness, metallic, texture_id) have no default in turtle.rs; they start
\* at 0, a value each of their setters can store.  uv_scale is the field
\* turtle.rs declares, which no arm of build_skeleton reads or writes.
DefaultTurtle ==
    [position |-> PosZero,
     rotation |-> QuatIdentity,
     width |-> F(100),
     color |-> <<F(1000), F(1000), F(1000), F(1000)>>,
     material_id |-> 0,
     uv_scale |-> F(1000),
     roughness |-> F(0),
     metallic |-> F(0),
     texture_id |-> 0]

\* The heading taken along the local Z axis.
UpAlongZ(t) == [fin |-> t.rotation.fin, v |-> MatVec(t.rotation.m, VecZ)]

\* TurtleState::up: rotation * Vec3::Y
Up(t) == [fin |-> t.rotation.fin, v |-> MatVec(t.rotation.m, VecY)]

RotateLocalX(t, angle) ==
    [t EXCEPT !.rotation = QuatMul(t.rotation, FromAxisAngle(VecX, angle))]

RotateLocalY(t, angle) ==
    [t EXCEPT !.rotation = QuatMul(t.rotation, FromAxisAngle(VecY, angle))]

RotateLocalZ(t, angle) ==
    [t EXCEPT !.rotation = QuatMul(t.rotation, FromAxisAngle(VecZ, angle))]

\* A rotate_axis that puts the rotation on the right, as the local ones do.
RotateAxisLocal(t, axis, angle) ==
    [t EXCEPT !.rotation = QuatMul(t.rotation, FromAxisAngle(axis, angle))]

\* rotate_axis: the world-space rotation goes on the left.
RotateAxis(t, axis, angle) ==
    [t EXCEPT !.rotation = QuatMul(FromAxisAngle(axis, angle), t.rotation)]

\* TurtleOp values: the variant and what it carries (a sign or a default id).
Op(kind, arg) == [kind |-> kind, arg |-> arg]

Ignore == Op("Ignore", 0)

----------------------------------------------------------------------------
\* skeleton.rs

EmptySkeleton == [strands |-> <<>>, props |-> <<>>]

\* Vec3::distance_squared, in millionths; non-finite when an operand is.
DistanceSquared(a, b) ==
    IF a.fin /\ b.fin
    THEN F((a.v[1] - b.v[1]) * (a.v[1] - b.v[1])
           + (a.v[2] - b.v[2]) * (a.v[2] - b.v[2])
           + (a.v[3] - b.v[3]) * (a.v[3] - b.v[3]))
    ELSE NaN

\* 0.00001 in millionths.
DedupEpsSq == 10

\* a < b on f32: false when the left side is NaN.
FLess(a, k) == a.fin /\ a.v < k

Last(s) == s[Len(s)]

SetLast(s, x) == [s EXCEPT ![Len(s)] = x]

\* add_node without the distance test.
AddNodeNoDedup(sk, point, force_new_strand) ==
    IF force_new_strand \/ sk.strands = <<>>
    THEN [sk EXCEPT !.strands = Append(@, <<point>>)]
    ELSE [sk EXCEPT !.strands = SetLast(@, Append(Last(@), point))]

\* add_node starting a new strand before it has its point.
AddNodeEmptyStrand(sk, point, force_new_strand) ==
    IF force_new_strand \/ sk.strands = <<>>
    THEN [sk EXCEPT !.strands = Append(@, <<>>)]
    ELSE [sk EXCEPT !.strands = SetLast(@, Append(Last(@), point))]

\* An add_node that overwrites the last point with one it would drop.
AddNodeReplaceLast(sk, point, force_new_strand) ==
    IF force_new_strand \/ sk.strands = <<>>
    THEN [sk EXCEPT !.strands = Append(@, <<point>>)]
    ELSE LET last_strand == Last(sk.strands) IN
         IF /\ last_strand # <<>>
            /\ FLess(DistanceSquared(Last(last_strand).position, point.position),
                     DedupEpsSq)
         THEN [sk EXCEPT !.strands = SetLast(@, SetLast(last_strand, point))]
         ELSE [sk EXCEPT !.strands = SetLast(@, Append(last_strand, point))]

\* Skeleton::add_node
AddNode(sk, point, force_new_strand) ==
    IF force_new_strand \/ sk.strands = <<>>
    THEN [sk EXCEPT !.strands = Append(@, <<point>>)]
    ELSE LET last_strand == Last(sk.strands) IN
         IF /\ last_strand # <<>>
            /\ FLess(DistanceSquared(Last(last_strand).position, point.position),
                     DedupEpsSq)
         THEN sk
         ELSE [sk EXCEPT !.strands = SetLast(@, Append(last_strand, point))]

\* Skeleton::add_prop
AddProp(sk, prop) == [sk EXCEPT !.props = Append(@, prop)]

----------------------------------------------------------------------------
\* interpreter.rs: configuration and operation table

None == [some |-> FALSE, v |-> <<0, 0, 0>>]

Some(vec) == [some |-> TRUE, v |-> vec]

\* TurtleConfig: the default configuration with a default angle of a quarter
\* turn; elasticity is in radians per unit of |head x tropism|.
DefaultConfig ==
    [default_step |-> F(1000),
     default_angle |-> F(1),
     initial_width |-> F(100),
     tropism |-> None,
     elasticity |-> F(0)]

\* The `mappings` array of populate_standard_symbols, in source order.
Mappings ==
    << <<"F", Op("Draw", 0)>>,
       <<"f", Op("Move", 0)>>,
       <<"+", Op("Yaw", 1)>>,
       <<"-", Op("Yaw", -1)>>,
       <<"&", Op("Pitch", 1)>>,
       <<"^", Op("Pitch", -1)>>,
       <<"\\\\", Op("Roll", 1)>>,
       <<"/", Op("Roll", -1)>>,
       <<"|", Op("TurnAround", 0)>>,
       <<"$", Op("Vertical", 0)>>,
       <<"!", Op("SetWidth", 0)>>,
       <<"[", Op("Push", 0)>>,
       <<"]", Op("Pop", 0)>>,
       <<"~", Op("Spawn", 0)>>,
       <<"'", Op("SetColor", 0)>>,
       <<",", Op("SetMaterial", 0)>>,
       <<"#", Op("SetRoughness", 0)>>,
       <<"@", Op("SetMetallic", 0)>>,
       <<";", Op("SetTexture", 0)>> >>

\* A SymbolTable that interned `tokens` in order: token -> id, ids from 0.
Interned(tokens) ==
    [tok \in {tokens[k] : k \in 1..Len(tokens)} |->
        (CHOOSE k \in 1..Len(tokens) : tokens[k] = tok) - 1]

\* The interner of the model's runs: every token of the table, then the
\* one-character backslash token, which the table does not name.
StdInterner ==
    Interned([k \in 1..(Len(Mappings) + 1) |->
                 IF k <= Len(Mappings) THEN Mappings[k][1] ELSE "\\"])

\* SymbolTable::resolve_id
ResolveId(interner, sym) ==
    IF sym \in DOMAIN interner THEN Some(interner[sym]) ELSE None

\* An insert that keeps the entry an identifier already has.
MapInsertKeep(map, id, op) ==
    [k \in (DOMAIN map) \cup {id} |-> IF k \in DOMAIN map THEN map[k] ELSE op]

\* HashMap::insert
MapInsert(map, id, op) ==
    [k \in (DOMAIN map) \cup {id} |-> IF k = id THEN op ELSE map[k]]

\* TurtleInterpreter::set_op
SetOp(map, sym_id, op) == MapInsert(map, sym_id, op)

RECURSIVE PopulateFrom(_, _, _)
PopulateFrom(map, interner, k) ==
    IF k > Len(Mappings) THEN map
    ELSE LET id == ResolveId(interner, Mappings[k][1]) IN
         PopulateFrom(IF id.some THEN MapInsert(map, id.v, Mappings[k][2]) ELSE map,
                      interner, k + 1)

\* TurtleInterpreter::populate_standard_symbols
PopulateStandardSymbols(map, interner) == PopulateFrom(map, interner, 1)

\* A lookup that takes a symbol without entry for a Draw.
LookupDefaultDraw(map, sym) == IF sym \in DOMAIN map THEN map[sym] ELSE Op("Draw", 0)

\* self.op_map.get(&view.sym).unwrap_or(&TurtleOp::Ignore)
Lookup(map, sym) == IF sym \in DOMAIN map THEN map[sym] ELSE Ignore

\* A call that writes the table, as kept on record in `calls`.
SetOpCall(sym_id, op) == [call |-> "set_op", sym_id |-> sym_id, op |-> op]

PopulateCall(interner) == [call |-> "populate_standard_symbols", interner |-> interner]

\* What one recorded call makes of the table.
Apply(map, c) ==
    IF c.call = "set_op" THEN SetOp(map, c.sym_id, c.op)
    ELSE PopulateStandardSymbols(map, c.interner)

\* The table of an interpreter after TurtleInterpreter::new (an empty map)
\* and the first n calls of `history`.
RECURSIVE Table(_, _)
Table(history, n) ==
    IF n <= 0 THEN <<>> ELSE Apply(Table(history, n - 1), history[n])

----------------------------------------------------------------------------
\* interpreter.rs: build_skeleton, one instruction

\* p(idx, def)
P(view, idx, def) ==
    IF idx + 1 <= Len(view.params) THEN view.params[idx + 1] ELSE def

\* get_val(default)
GetVal(view, default) ==
    IF view.params # <<>> THEN view.params[1] ELSE default

\* A point that stores the whole width as its radius.
PointFullWidth(t) ==
    [position |-> t.position,
     rotation |-> t.rotation,
     radius |-> t.width,
     color |-> t.color,
     material_id |-> t.material_id,
     roughness |-> t.roughness,
     metallic |-> t.metallic]

\* The SkeletonPoint literal built from the turtle.
Point(t) ==
    [position |-> t.position,
     rotation |-> t.rotation,
     radius |-> Half(t.width),
     color |-> t.color,
     material_id |-> t.material_id,
     roughness |-> t.roughness,
     metallic |-> t.metallic]

\* turtle.position += turtle.up() * len
Advance(t, step) ==
    LET up == Up(t) IN
    [t EXCEPT !.position =
        IF t.position.fin /\ up.fin /\ step.fin
        THEN [fin |-> TRUE, v |-> VecAdd(t.position.v, VecScale(step.v, up.v))]
        ELSE PosNaN]

\* The tropism bend of a Draw.
Bend(cfg, t) ==
    IF cfg.tropism.some /\ cfg.elasticity.fin /\ cfg.elasticity.v > 0
    THEN LET head == Up(t)
             h_cross_t == Cross(head.v, cfg.tropism.v)
             mag == Length(h_cross_t)
         IN IF head.fin /\ mag > 0
            THEN RotateAxis(t,
                    <<h_cross_t[1] \div mag, h_cross_t[2] \div mag, h_cross_t[3] \div mag>>,
                    FMulInt(cfg.elasticity, mag))
            ELSE t
    ELSE t

\* A Move that bends under tropism as a Draw does.
DrawMoveArmBendsMove(cfg, op, view, S) ==
    LET step == GetVal(view, cfg.default_step)
        is_move == op.kind = "Move"
        sk1 == IF S.skeleton.strands = <<>>
               THEN AddNode(S.skeleton, Point(S.turtle), TRUE)
               ELSE S.skeleton
        t1 == Bend(cfg, Advance(S.turtle, step))
    IN [turtle |-> t1, stack |-> S.stack, skeleton |-> AddNode(sk1, Point(t1), is_move)]

\* A Draw that forces a new strand as a Move does.
DrawMoveArmForce(cfg, op, view, S) ==
    LET step == GetVal(view, cfg.default_step)
        is_move == op.kind = "Move"
        sk1 == IF S.skeleton.strands = <<>>
               THEN AddNode(S.skeleton, Point(S.turtle), TRUE)
               ELSE S.skeleton
        t1 == IF ~is_move THEN Bend(cfg, Advance(S.turtle, step))
              ELSE Advance(S.turtle, step)
    IN [turtle |-> t1, stack |-> S.stack, skeleton |-> AddNode(sk1, Point(t1), TRUE)]

\* A Move that does not force a new strand.
DrawMoveArmNoForce(cfg, op, view, S) ==
    LET step == GetVal(view, cfg.default_step)
        is_move == op.kind = "Move"
        sk1 == IF S.skeleton.strands = <<>>
               THEN AddNode(S.skeleton, Point(S.turtle), TRUE)
               ELSE S.skeleton
        t1 == IF ~is_move THEN Bend(cfg, Advance(S.turtle, step))
              ELSE Advance(S.turtle, step)
    IN [turtle |-> t1, stack |-> S.stack, skeleton |-> AddNode(sk1, Point(t1), FALSE)]

\* TurtleOp::Draw | TurtleOp::Move
DrawMoveArm(cfg, op, view, S) ==
    LET step == GetVal(view, cfg.default_step)
        is_move == op.kind = "Move"
        sk1 == IF S.skeleton.strands = <<>>
               THEN AddNode(S.skeleton, Point(S.turtle), TRUE)
               ELSE S.skeleton
        t1 == IF ~is_move THEN Bend(cfg, Advance(S.turtle, step))
              ELSE Advance(S.turtle, step)
    IN [turtle |-> t1, stack |-> S.stack, skeleton |-> AddNode(sk1, Point(t1), is_move)]

\* get_val(default_angle.to_degrees()).to_radians() * sign
Angle(cfg, op, view) ==
    FMulInt(ToRadians(GetVal(view, ToDegrees(cfg.default_angle))), op.arg)

YawArm(cfg, op, view, S) ==
    [S EXCEPT !.turtle = RotateLocalZ(@, Angle(cfg, op, view))]

\* Pitch turning about the local Y axis, as Roll does.
PitchArmAboutY(cfg, op, view, S) ==
    [S EXCEPT !.turtle = RotateLocalY(@, Angle(cfg, op, view))]

PitchArm(cfg, op, view, S) ==
    [S EXCEPT !.turtle = RotateLocalX(@, Angle(cfg, op, view))]

RollArm(cfg, op, view, S) ==
    [S EXCEPT !.turtle = RotateLocalY(@, Angle(cfg, op, view))]

TurnAroundArm(S) == [S EXCEPT !.turtle = RotateLocalZ(@, PI)]

\* A Vertical that never aligns.
VerticalArmNoop(S) == S

\* TurtleOp::Vertical; normalize_or_zero gives zero for a non-finite heading.
VerticalArm(S) ==
    LET h == Up(S.turtle)
        l0 == Cross(VecY, h.v)
        l == IF h.fin /\ Length(l0) > 0
             THEN <<l0[1] \div Length(l0), l0[2] \div Length(l0), l0[3] \div Length(l0)>>
             ELSE <<0, 0, 0>>
        u0 == Cross(h.v, l)
    IN IF Length(l) > 0
       THEN LET u == <<u0[1] \div Length(u0), u0[2] \div Length(u0), u0[3] \div Length(u0)>>
            IN [S EXCEPT !.turtle.rotation =
                   [fin |-> TRUE, m |-> <<VecScale(-1, l), h.v, u>>]]
       ELSE S

SetWidthArm(view, S) ==
    [S EXCEPT !.turtle.width = GetVal(view, S.turtle.width)]

\* SetColor also taking two parameters as a colour.
SetColorArmTwo(view, S) ==
    LET p0 == P(view, 0, F(0)) IN
    CASE Len(view.params) = 1 ->
            [S EXCEPT !.turtle.color = <<p0, p0, p0, F(1000)>>]
      [] Len(view.params) \in {2, 3} ->
            [S EXCEPT !.turtle.color =
                <<P(view, 0, F(0)), P(view, 1, F(0)), P(view, 2, F(0)), F(1000)>>]
      [] Len(view.params) = 4 ->
            [S EXCEPT !.turtle.color =
                <<P(view, 0, F(0)), P(view, 1, F(0)), P(view, 2, F(0)), P(view, 3, F(1000))>>]
      [] OTHER -> S

\* TurtleOp::SetColor
SetColorArm(view, S) ==
    LET p0 == P(view, 0, F(0)) IN
    CASE Len(view.params) = 1 ->
            [S EXCEPT !.turtle.color = <<p0, p0, p0, F(1000)>>]
      [] Len(view.params) = 3 ->
            [S EXCEPT !.turtle.color =
                <<P(view, 0, F(0)), P(view, 1, F(0)), P(view, 2, F(0)), F(1000)>>]
      [] Len(view.params) = 4 ->
            [S EXCEPT !.turtle.color =
                <<P(view, 0, F(0)), P(view, 1, F(0)), P(view, 2, F(0)), P(view, 3, F(1000))>>]
      [] OTHER -> S

SetMaterialArm(view, S) ==
    [S EXCEPT !.turtle.material_id = AsUnsigned(P(view, 0, F(0)), 255)]

SetRoughnessArm(view, S) ==
    [S EXCEPT !.turtle.roughness = Clamp01(P(view, 0, F(0)))]

SetMetallicArm(view, S) ==
    [S EXCEPT !.turtle.metallic = Clamp01(P(view, 0, F(0)))]

SetTextureArm(view, S) ==
    [S EXCEPT !.turtle.texture_id = AsUnsigned(P(view, 0, F(0)), 65535)]

\* Push saving the turtle with its width reset.
PushArmResetWidth(S) ==
    [S EXCEPT !.stack = Append(@, [S.turtle EXCEPT !.width = DefaultTurtle.width]),
              !.skeleton = AddNode(@, Point(S.turtle), TRUE)]

\* TurtleOp::Push
PushArm(S) ==
    [S EXCEPT !.stack = Append(@, S.turtle),
              !.skeleton = AddNode(@, Point(S.turtle), TRUE)]

\* Pop emitting a point even when the stack is empty.
PopArmUnguarded(S) ==
    IF S.stack # <<>>
    THEN LET saved_state == Last(S.stack) IN
         [turtle |-> saved_state,
          stack |-> SubSeq(S.stack, 1, Len(S.stack) - 1),
          skeleton |-> AddNode(S.skeleton, Point(saved_state), TRUE)]
    ELSE [S EXCEPT !.skeleton = AddNode(@, Point(S.turtle), TRUE)]

\* Pop appending to the current strand instead of breaking it.
PopArmNoBreak(S) ==
    IF S.stack # <<>>
    THEN LET saved_state == Last(S.stack) IN
         [turtle |-> saved_state,
          stack |-> SubSeq(S.stack, 1, Len(S.stack) - 1),
          skeleton |-> AddNode(S.skeleton, Point(saved_state), FALSE)]
    ELSE S

\* A Pop that restores the oldest saved state instead of the newest.
PopArmOldest(S) ==
    IF S.stack # <<>>
    THEN LET saved_state == Head(S.stack) IN
         [turtle |-> saved_state,
          stack |-> Tail(S.stack),
          skeleton |-> AddNode(S.skeleton, Point(saved_state), TRUE)]
    ELSE S

\* TurtleOp::Pop
PopArm(S) ==
    IF S.stack # <<>>
    THEN LET saved_state == Last(S.stack) IN
         [turtle |-> saved_state,
          stack |-> SubSeq(S.stack, 1, Len(S.stack) - 1),
          skeleton |-> AddNode(S.skeleton, Point(saved_state), TRUE)]
    ELSE S

\* A Spawn that puts its prop at the front of the prop list.
SpawnArmPrepend(op, view, S) ==
    LET surface_id == IF view.params # <<>>
                      THEN AsUnsigned(view.params[1], 65535)
                      ELSE op.arg
        scale_scalar == P(view, 1, F(1000))
    IN [S EXCEPT !.skeleton.props =
           <<[surface_id |-> surface_id,
              position |-> S.turtle.position,
              rotation |-> S.turtle.rotation,
              scale |-> <<scale_scalar, scale_scalar, scale_scalar>>]>> \o @]

\* TurtleOp::Spawn
SpawnArm(op, view, S) ==
    LET surface_id == IF view.params # <<>>
                      THEN AsUnsigned(view.params[1], 65535)
                      ELSE op.arg
        scale_scalar == P(view, 1, F(1000))
    IN [S EXCEPT !.skeleton =
           AddProp(@, [surface_id |-> surface_id,
                       position |-> S.turtle.position,
                       rotation |-> S.turtle.rotation,
                       scale |-> <<scale_scalar, scale_scalar, scale_scalar>>])]

\* The `match op` of build_skeleton.
Dispatch(cfg, op, view, S) ==
    CASE op.kind \in {"Draw", "Move"} -> DrawMoveArm(cfg, op, view, S)
      [] op.kind = "Yaw" -> YawArm(cfg, op, view, S)
      [] op.kind = "Pitch" -> PitchArm(cfg, op, view, S)
      [] op.kind = "Roll" -> RollArm(cfg, op, view, S)
      [] op.kind = "TurnAround" -> TurnAroundArm(S)
      [] op.kind = "Vertical" -> VerticalArm(S)
      [] op.kind = "SetWidth" -> SetWidthArm(view, S)
      [] op.kind = "SetColor" -> SetColorArm(view, S)
      [] op.kind = "SetMaterial" -> SetMaterialArm(view, S)
      [] op.kind = "SetRoughness" -> SetRoughnessArm(view, S)
      [] op.kind = "SetMetallic" -> SetMetallicArm(view, S)
      [] op.kind = "SetTexture" -> SetTextureArm(view, S)
      [] op.kind = "Push" -> PushArm(S)
      [] op.kind = "Pop" -> PopArm(S)
      [] op.kind = "Spawn" -> SpawnArm(op, view, S)
      [] op.kind = "Ignore" -> S

----------------------------------------------------------------------------
\* The instruction streams fed to build_skeleton

\* Parameter lists an instruction of each operation may carry: absent, below
\* and above the dedup threshold for steps; quarter turns, absent and a
\* non-finite value for angles; every parameter count from 0 to 5 for colours;
\* none or one for a symbol without operation.
InputParams(op) ==
    CASE op.kind = "Draw" -> {<<>>, <<F(3)>>, <<F(5000)>>, <<F(10000)>>}
      [] op.kind = "Move" -> {<<>>, <<F(3)>>}
      [] op.kind \in {"Yaw", "Pitch"} /\ op.arg = 1 -> {<<F(90000)>>, <<NaN>>}
      [] op.kind = "Roll" /\ op.arg = 1 -> {<<>>, <<NaN>>}
      [] op.kind \in {"Yaw", "Pitch", "Roll"} /\ op.arg # 1 -> {<<F(90000)>>}
      [] op.kind = "SetWidth" -> {<<>>, <<F(200)>>}
      [] op.kind = "SetColor" ->
            {<<>>, <<F(200)>>, <<F(200), F(300)>>, <<F(200), F(300), F(400)>>,
             <<F(200), F(300), F(400), F(500)>>,
             <<F(200), F(300), F(400), F(500), F(600)>>}
      [] op.kind = "SetMaterial" -> {<<>>, <<F(3000)>>}
      [] op.kind = "SetRoughness" -> {<<>>, <<F(1500)>>}
      [] op.kind = "SetMetallic" -> {<<>>, <<F(250)>>}
      [] op.kind = "SetTexture" -> {<<>>, <<F(2000)>>}
      [] op.kind = "Spawn" -> {<<>>, <<F(7000), F(2000)>>}
      [] op.kind = "Ignore" -> {<<>>, <<F(90000)>>}
      [] OTHER -> {<<>>}

\* Symbol identifiers an instruction may carry.
SymIds == {StdInterner[tok] : tok \in DOMAIN StdInterner}

\* The symbols the operation table resolves to an operation of this kind
\* (for Ignore, also the symbols it has no entry for).
SymsOf(kind) == {sym \in SymIds : Lookup(op_map, sym).kind = kind}

\* The interpreter's working state: what one instruction reads and writes.
Work == [turtle |-> turtle, stack |-> stack, skeleton |-> skeleton]

\* The last `n` instructions of a stream.
Recent(s, n) == IF Len(s) > n THEN SubSeq(s, Len(s) - n + 1, Len(s)) ELSE s

\* One iteration of the loop of build_skeleton (i < state.len()) on the
\* instruction `view`.
Exec(view) ==
    /\ pc = "loop"
    /\ \E R \in {Dispatch(config, Lookup(op_map, view.sym), view, Work)} :
          /\ turtle' = R.turtle
          /\ stack' = R.stack
          /\ skeleton' = R.skeleton
    /\ prev' = Work
    /\ stream' = Recent(Append(stream, view), window)
    /\ i' = i + 1
    /\ UNCHANGED <<op_map, config, len, window, pc, returned, calls, old_map>>

Draw ==
    /\ i < len
    /\ \E sym \in SymsOf("Draw") :
          \E params \in InputParams(Lookup(op_map, sym)) :
              Exec([sym |-> sym, params |-> params])

Move ==
    /\ i < len
    /\ \E sym \in SymsOf("Move") :
          \E params \in InputParams(Lookup(op_map, sym)) :
              Exec([sym |-> sym, params |-> params])

Yaw ==
    /\ i < len
    /\ \E sym \in SymsOf("Yaw") :
          \E params \in InputParams(Lookup(op_map, sym)) :
              Exec([sym |-> sym, params |-> params])

Pitch ==
    /\ i < len
    /\ \E sym \in SymsOf("Pitch") :
          \E params \in InputParams(Lookup(op_map, sym)) :
              Exec([sym |-> sym, params |-> params])

Roll ==
    /\ i < len
    /\ \E sym \in SymsOf("Roll") :
          \E params \in InputParams(Lookup(op_map, sym)) :
              Exec([sym |-> sym, params |-> params])

TurnAround ==
    /\ i < len
    /\ \E sym \in SymsOf("TurnAround") :
          \E params \in InputParams(Lookup(op_map, sym)) :
              Exec([sym |-> sym, params |-> params])

Vertical ==
    /\ i < len
    /\ \E sym \in SymsOf("Vertical") :
          \E params \in InputParams(Lookup(op_map, sym)) :
              Exec([sym |-> sym, params |-> params])

SetWidth ==
    /\ i < len
    /\ \E sym \in SymsOf("SetWidth") :
          \E params \in InputParams(Lookup(op_map, sym)) :
              Exec([sym |-> sym, params |-> params])

SetColor ==
    /\ i < len
    /\ \E sym \in SymsOf("SetColor") :
          \E params \in InputParams(Lookup(op_map, sym)) :
              Exec([sym |-> sym, params |-> params])

SetMaterial ==
    /\ i < len
    /\ \E sym \in SymsOf("SetMaterial") :
          \E params \in InputParams(Lookup(op_map, sym)) :
              Exec([sym |-> sym, params |-> params])

SetRoughness ==
    /\ i < len
    /\ \E sym \in SymsOf("SetRoughness") :
          \E params \in InputParams(Lookup(op_map, sym)) :
              Exec([sym |-> sym, params |-> params])

SetMetallic ==
    /\ i < len
    /\ \E sym \in SymsOf("SetMetallic") :
          \E params \in InputParams(Lookup(op_map, sym)) :
              Exec([sym |-> sym, params |-> params])

SetTexture ==
    /\ i < len
    /\ \E sym \in SymsOf("SetTexture") :
          \E params \in InputParams(Lookup(op_map, sym)) :
              Exec([sym |-> sym, params |-> params])

Push ==
    /\ i < len
    /\ \E sym \in SymsOf("Push") :
          \E params \in InputParams(Lookup(op_map, sym)) :
              Exec([sym |-> sym, params |-> params])

Pop ==
    /\ i < len
    /\ \E sym \in SymsOf("Pop") :
          \E params \in InputParams(Lookup(op_map, sym)) :
              Exec([sym |-> sym, params |-> params])

Spawn ==
    /\ i < len
    /\ \E sym \in SymsOf("Spawn") :
          \E params \in InputParams(Lookup(op_map, sym)) :
              Exec([sym |-> sym, params |-> params])

Unmapped ==
    /\ i < len
    /\ \E sym \in SymsOf("Ignore") :
          \E params \in InputParams(Lookup(op_map, sym)) :
              Exec([sym |-> sym, params |-> params])

\* The locals of build_skeleton before its loop: a new skeleton, a default
\* turtle of the configured width, an empty stack.
Fresh(cfg) ==
    [turtle |-> [DefaultTurtle EXCEPT !.width = cfg.initial_width],
     stack |-> <<>>,
     skeleton |-> EmptySkeleton]

\* The state at the top of build_skeleton, called on an interpreter whose
\* table was built by `history` (TurtleInterpreter::new, then these calls)
\* and whose configuration is one of `cfgs`, for a stream of at most n
\* instructions, of which the last w stay on record in `stream`.
StartIn(history, cfgs, n, w) ==
    /\ calls = history
    /\ op_map = Table(history, Len(history))
    /\ old_map = Table(history, Len(history) - 1)
    /\ config \in cfgs
    /\ len \in 0..n
    /\ window = w
    /\ stream = <<>>
    /\ i = 0
    /\ turtle = Fresh(config).turtle
    /\ stack = Fresh(config).stack
    /\ skeleton = Fresh(config).skeleton
    /\ prev = Fresh(config)
    /\ pc = "loop"
    /\ returned = <<>>

\* The same under the default configuration.
StartWith(history, n, w) == StartIn(history, {DefaultConfig}, n, w)

\* The same on the interpreter of the tests: new, then
\* populate_standard_symbols.
Start(n, w) == StartWith(<<PopulateCall(StdInterner)>>, n, w)

\* Every operation; the last instruction is on record.
Init == Start(MaxLen, 1)

Next ==
    \/ Draw \/ Move \/ Yaw \/ Pitch \/ Roll \/ TurnAround \/ Vertical
    \/ SetWidth \/ SetColor \/ SetMaterial \/ SetRoughness \/ SetMetallic
    \/ SetTexture \/ Push \/ Pop \/ Spawn \/ Unmapped

Spec == Init /\ [][Next]_vars

\* Streams of Draw, Push and Pop, long enough for a branch and a resumed
\* trunk; the whole stream is on record.
InitBranch == Start(MaxBranchLen, MaxBranchLen)

NextBranch == Draw \/ Push \/ Pop

SpecBranch == InitBranch /\ [][NextBranch]_vars

\* Streams of Draw, Spawn and the rotations; the whole stream is on record.
InitTurn == Start(MaxTurnLen, MaxTurnLen)

NextTurn == Draw \/ Spawn \/ Yaw \/ Pitch \/ Roll \/ TurnAround \/ Vertical

SpecTurn == InitTurn /\ [][NextTurn]_vars

\* Streams around the branch stack: what changes the turtle (Draw, Yaw,
\* SetWidth, SetMaterial), Push and Pop; the whole stream is on record.
InitStack == Start(MaxStackLen, MaxStackLen)

NextStack == Draw \/ Yaw \/ SetWidth \/ SetMaterial \/ Push \/ Pop

SpecStack == InitStack /\ [][NextStack]_vars

\* Streams of nested branches: Push and Pop around what changes the turtle
\* (Draw, TurnAround, SetWidth); the whole stream is on record.
InitLifo == Start(MaxLifoLen, MaxLifoLen)

NextLifo == Draw \/ TurnAround \/ SetWidth \/ Push \/ Pop

SpecLifo == InitLifo /\ [][NextLifo]_vars

\* Streams of Draw, Pitch, Roll and symbols without operation; the whole
\* stream is on record.
InitRoll == Start(MaxRollLen, MaxRollLen)

NextRoll == Draw \/ Pitch \/ Roll \/ Unmapped

SpecRoll == InitRoll /\ [][NextRoll]_vars

\* Streams with symbols that have no operation: the interpreter of the tests
\* after set_op has mapped "$" to Ignore, so that one symbol is mapped to
\* Ignore and one (the one-character backslash) has no entry.  The last two
\* instructions are on record.
InitIgnore ==
    StartWith(<<PopulateCall(StdInterner), SetOpCall(StdInterner["$"], Ignore)>>,
              MaxIgnoreLen, 2)

NextIgnore == Draw \/ Yaw \/ Push \/ Spawn \/ Unmapped

SpecIgnore == InitIgnore /\ [][NextIgnore]_vars

\* The configurations of the tropism specification: no direction, gravity
\* (0, -1, 0) or the world X axis, with an elasticity of zero, of a quarter
\* turn per unit of |head x tropism|, or of minus that.
Configs ==
    {[DefaultConfig EXCEPT !.tropism = t, !.elasticity = e] :
        t \in {None, Some(<<0, -1, 0>>), Some(<<1, 0, 0>>)},
        e \in {F(0), F(1), F(-1)}}

\* Streams of Draw, Move and the turns that change the heading, under every
\* configuration of Configs; the last instruction is on record.
InitTropism == StartIn(<<PopulateCall(StdInterner)>>, Configs, MaxTropismLen, 1)

NextTropism == Draw \/ Move \/ Yaw \/ Pitch

SpecTropism == InitTropism /\ [][NextTropism]_vars

\* The stream has been consumed: build_skeleton returns `skeleton`.
Done == i = len

\* build_skeleton on the first n instructions of s: the working state after
\* them, from the fresh skeleton, turtle and stack.
RECURSIVE Run(_, _)
Run(s, n) ==
    IF n = 0
    THEN Fresh(config)
    ELSE Dispatch(config, Lookup(op_map, s[n].sym), s[n], Run(s, n - 1))

\* A failed fetch that skips the instruction and goes on with the next index.
FetchNoneSkips ==
    /\ pc = "loop"
    /\ i < len
    /\ i' = i + 1
    /\ UNCHANGED <<op_map, config, len, window, stream, turtle, stack, skeleton,
                   prev, pc, returned, calls, old_map>>

\* state.get_view(i) yields None although i < state.len(): `break`, and
\* build_skeleton returns the skeleton built so far.
FetchNone ==
    /\ pc = "loop"
    /\ i < len
    /\ pc' = "done"
    /\ returned' = Append(returned, [stream |-> stream, skeleton |-> skeleton])
    /\ UNCHANGED <<op_map, config, len, window, stream, i, turtle, stack, skeleton,
                   prev, calls, old_map>>

\* The range 0..state.len() is exhausted: build_skeleton returns the skeleton.
Return ==
    /\ pc = "loop"
    /\ i = len
    /\ pc' = "done"
    /\ returned' = Append(returned, [stream |-> stream, skeleton |-> skeleton])
    /\ UNCHANGED <<op_map, config, len, window, stream, i, turtle, stack, skeleton,
                   prev, calls, old_map>>

\* One call of build_skeleton from its entry to its return, on streams of
\* Move, Push and Pop whose instructions may fail to be fetched; the
\* whole stream is on record.  The loop is sequential code: a step that can
\* be taken is taken.
InitLoop == Start(MaxLoopLen, MaxLoopLen)

NextLoop == Move \/ Push \/ Pop \/ FetchNone \/ Return

SpecLoop == InitLoop /\ [][NextLoop]_vars /\ WF_vars(NextLoop)

\* A call that finds the stack the call before left behind.
CallKeepingStack ==
    /\ pc = "done"
    /\ Len(returned) < MaxCalls
    /\ turtle' = Fresh(config).turtle
    /\ stack' = stack
    /\ skeleton' = Fresh(config).skeleton
    /\ prev' = Fresh(config)
    /\ len' \in 0..window
    /\ stream' = <<>>
    /\ i' = 0
    /\ pc' = "loop"
    /\ UNCHANGED <<op_map, config, window, returned, calls, old_map>>

\* build_skeleton is called again on the same interpreter (&self: the same
\* table and configuration), with another stream of at most `window`
\* instructions.
Call ==
    /\ pc = "done"
    /\ Len(returned) < MaxCalls
    /\ turtle' = Fresh(config).turtle
    /\ stack' = Fresh(config).stack
    /\ skeleton' = Fresh(config).skeleton
    /\ prev' = Fresh(config)
    /\ len' \in 0..window
    /\ stream' = <<>>
    /\ i' = 0
    /\ pc' = "loop"
    /\ UNCHANGED <<op_map, config, window, returned, calls, old_map>>

\* Successive calls of build_skeleton on one interpreter, on streams of Push,
\* Pop and Spawn; the whole stream of the running call is on record, and
\* `returned` keeps the stream and the skeleton of every call that returned.
InitCalls == Start(MaxCallLen, MaxCallLen)

NextCalls == Push \/ Pop \/ Spawn \/ Return \/ Call

SpecCalls == InitCalls /\ [][NextCalls]_vars

----------------------------------------------------------------------------
\* Building the operation table: set_op and populate_standard_symbols

\* Most calls that write the table of one interpreter.
MaxTableCalls == 3

\* The interners handed to populate_standard_symbols: those of the test
\* setups (with the one-character backslash token), one that interned every
\* token of the table, and one holding no standard token at all.
Interners ==
    {Interned(<<"F", "+", "[", "]">>),
     Interned(<<"F", "+", "-", "&", "^", "\\", "/", "|", "$">>),
     Interned(<<"F", "'", ",", ";", "~">>),
     Interned(<<"NaN", "Pop">>),
     StdInterner}

\* The identifiers and the operations handed to set_op.
SetOpIds == {0, 1, 5, 19}

SetOpOps == {Op("Yaw", 1), Op("Pop", 0), Ignore}

\* TurtleInterpreter::new: an empty table; build_skeleton is not running.
InitTable ==
    /\ calls = <<>>
    /\ op_map = <<>>
    /\ old_map = <<>>
    /\ config = DefaultConfig
    /\ len = 0
    /\ window = 0
    /\ stream = <<>>
    /\ i = 0
    /\ turtle = Fresh(config).turtle
    /\ stack = Fresh(config).stack
    /\ skeleton = Fresh(config).skeleton
    /\ prev = Fresh(config)
    /\ pc = "setup"
    /\ returned = <<>>

\* interpreter.set_op(sym_id, op)
CallSetOp ==
    /\ pc = "setup"
    /\ Len(calls) < MaxTableCalls
    /\ \E sym_id \in SetOpIds, op \in SetOpOps :
          /\ op_map' = SetOp(op_map, sym_id, op)
          /\ calls' = Append(calls, SetOpCall(sym_id, op))
    /\ old_map' = op_map
    /\ UNCHANGED <<config, len, window, stream, i, turtle, stack, skeleton, prev,
                   pc, returned>>

\* interpreter.populate_standard_symbols(&interner)
CallPopulate ==
    /\ pc = "setup"
    /\ Len(calls) < MaxTableCalls
    /\ \E interner \in Interners :
          /\ op_map' = PopulateStandardSymbols(op_map, interner)
          /\ calls' = Append(calls, PopulateCall(interner))
    /\ old_map' = op_map
    /\ UNCHANGED <<config, len, window, stream, i, turtle, stack, skeleton, prev,
                   pc, returned>>

NextTable == CallSetOp \/ CallPopulate

SpecTable == InitTable /\ [][NextTable]_vars

----------------------------------------------------------------------------
\* Reading the run

\* The instruction the loop has just interpreted (i > 0).
LastView == stream[Len(stream)]

\* The operation of the k-th instruction on record.
KindAt(k) == Lookup(op_map, stream[k].sym).kind

\* The loop has just interpreted an instruction of this kind; `prev` is the
\* working state it started from.
Ran(kind) == i > 0 /\ KindAt(Len(stream)) = kind

\* The instruction whose symbol is the token `tok`.
Instr(tok, params) == [sym |-> StdInterner[tok], params |-> params]

\* The whole stream is on record.
Whole == Len(stream) = i

\* A finite position on the world Y axis, in thousandths.
OnY(y) == [fin |-> TRUE, v |-> <<0, y, 0>>]

Positions(strand) == [k \in 1..Len(strand) |-> strand[k].position]

\* The last strand is a single point, at position `pos`, after `before`.
StartsStrandAt(sk, before, pos) ==
    /\ Len(sk.strands) = Len(before.strands) + 1
    /\ SubSeq(sk.strands, 1, Len(before.strands)) = before.strands
    /\ Positions(Last(sk.strands)) = <<pos>>
    /\ sk.props = before.props

----------------------------------------------------------------------------
\* C1: a Pop executed while the branch stack is empty changes neither the
\* turtle nor the stack nor the skeleton, the loop goes on to the next
\* instruction, and a stream made only of Pops yields no strand and no prop.
PopOnEmptyStackIsNoOp ==
    /\ (Ran("Pop") /\ prev.stack = <<>>) =>
          /\ Work = prev
          /\ (i < len => ENABLED NextBranch)
    /\ (Whole /\ \A k \in 1..Len(stream) : KindAt(k) = "Pop") =>
          skeleton = EmptySkeleton

\* A Pop on the empty stack after a Draw has built a strand.
PopOnEmptyStackSeen ==
    /\ Ran("Pop")
    /\ prev.stack = <<>>
    /\ prev.skeleton.strands # <<>>
    /\ prev.turtle.position # PosZero

\* Pushes less Pops among the instructions j+1..m on record.
RECURSIVE Balance(_, _)
Balance(j, m) ==
    IF m <= j THEN 0
    ELSE Balance(j, m - 1)
         + (IF KindAt(m) = "Push" THEN 1 ELSE IF KindAt(m) = "Pop" THEN 0 - 1 ELSE 0)

\* The Pop at k closes the Push at j.
Closes(j, k) ==
    /\ j < k
    /\ KindAt(j) = "Push"
    /\ KindAt(k) = "Pop"
    /\ Balance(j, k - 1) = 0
    /\ \A m \in (j + 1)..(k - 1) : Balance(j, m) >= 0

\* C2: when the Pop just executed closes a Push with no Draw or Move between
\* them, the turtle (position, rotation, width, appearance) is what it was
\* just before the Push, and the Push and the Pop each started a new strand
\* whose only point is at that position.
PushPopRestores ==
    \A j \in 1..Len(stream) :
        (/\ Whole
         /\ Closes(j, Len(stream))
         /\ \A m \in (j + 1)..(Len(stream) - 1) : KindAt(m) \notin {"Draw", "Move"}) =>
            LET before == Run(stream, j - 1)
                pushed == Run(stream, j)
            IN /\ turtle = before.turtle
               /\ StartsStrandAt(pushed.skeleton, before.skeleton, before.turtle.position)
               /\ StartsStrandAt(skeleton, prev.skeleton, before.turtle.position)

\* A turtle moved, turned and widened, then Push, a rotation or a setter, Pop.
PushPopSeen ==
    /\ Whole
    /\ Len(stream) = 4
    /\ KindAt(2) = "Push"
    /\ KindAt(3) \in {"Yaw", "SetWidth", "SetMaterial"}
    /\ KindAt(4) = "Pop"
    /\ prev.turtle # turtle
    /\ turtle # Run(stream, 0).turtle

\* C3: every strand of the skeleton holds at least one point.
StrandsNonEmpty ==
    \A k \in 1..Len(skeleton.strands) : Len(skeleton.strands[k]) >= 1

\* Strands started by a Push, by a Move and by the first point.
ManyStrandsSeen ==
    /\ Len(skeleton.strands) = 3
    /\ Ran("Move")
    /\ prev.stack # <<>>

\* C4: no two consecutive points of a strand are closer than the dedup
\* epsilon (squared distance), and a Draw whose end point lies within epsilon
\* of the last point of the current strand leaves that strand as it was (on
\* an empty skeleton the strand is the start point alone).
NoCoincidentNeighbours ==
    /\ \A k \in 1..Len(skeleton.strands) :
          \A n \in 1..(Len(skeleton.strands[k]) - 1) :
              ~FLess(DistanceSquared(skeleton.strands[k][n].position,
                                     skeleton.strands[k][n + 1].position),
                     DedupEpsSq)
    /\ (/\ Ran("Draw")
        /\ prev.skeleton.strands # <<>>
        /\ FLess(DistanceSquared(Last(Last(prev.skeleton.strands)).position,
                                 turtle.position),
                 DedupEpsSq)) =>
          skeleton = prev.skeleton
    /\ (/\ Ran("Draw")
        /\ prev.skeleton.strands = <<>>
        /\ FLess(DistanceSquared(prev.turtle.position, turtle.position), DedupEpsSq)) =>
          /\ Len(skeleton.strands) = 1
          /\ Positions(skeleton.strands[1]) = <<prev.turtle.position>>

\* A Draw of 0.003 whose end point was dropped from a strand of two points.
DroppedPointSeen ==
    /\ Ran("Draw")
    /\ LastView.params = <<F(3)>>
    /\ prev.skeleton.strands # <<>>
    /\ Len(Last(prev.skeleton.strands)) = 2
    /\ skeleton = prev.skeleton
    /\ turtle.position # prev.turtle.position

\* Draw parameter lists whose step is above the dedup threshold.
StepsAbove ==
    {ps \in InputParams(Op("Draw", 0)) :
        LET step == GetVal([params |-> ps], config.default_step)
        IN step.fin /\ step.v * step.v >= DedupEpsSq}

StepOf(ps) == GetVal([params |-> ps], config.default_step).v

\* C5: Draw(a) Push Draw(b) Pop Draw(c) with a, b, c above the dedup
\* threshold yields exactly three strands of two points: 0 to a, a to a+b and
\* a to a+c on the Y axis.
BranchingTopology ==
    \A a \in StepsAbove, b \in StepsAbove, c \in StepsAbove :
        (/\ Done
         /\ stream = <<Instr("F", a), Instr("[", <<>>), Instr("F", b),
                       Instr("]", <<>>), Instr("F", c)>>) =>
            /\ Len(skeleton.strands) = 3
            /\ Positions(skeleton.strands[1]) = <<OnY(0), OnY(StepOf(a))>>
            /\ Positions(skeleton.strands[2]) =
                  <<OnY(StepOf(a)), OnY(StepOf(a) + StepOf(b))>>
            /\ Positions(skeleton.strands[3]) =
                  <<OnY(StepOf(a)), OnY(StepOf(a) + StepOf(c))>>

\* F(10) [ F(5) ] F(10), interpreted to its end.
BranchingSeen ==
    /\ Done
    /\ stream = <<Instr("F", <<F(10000)>>), Instr("[", <<>>), Instr("F", <<F(5000)>>),
                  Instr("]", <<>>), Instr("F", <<F(10000)>>)>>

\* Where the run ended: the last point of the last strand.
EndPoint == Last(Last(skeleton.strands)).position

\* The stream is the single instruction Draw with a finite step, interpreted
\* to its end.
SingleDraw ==
    /\ Done
    /\ len = 1
    /\ Ran("Draw")
    /\ GetVal(LastView, config.default_step).fin

\* The skeleton is one strand of two points, from the origin to (0, s, 0).
OneSegmentTo(s) ==
    /\ Len(skeleton.strands) = 1
    /\ Positions(skeleton.strands[1]) = <<PosZero, OnY(s)>>
    /\ skeleton.props = <<>>

\* C6 as stated: a single Draw(s) from the initial turtle gives one strand of
\* exactly two points, (0,0,0) and (0,s,0), for every step length s.
SingleDrawTwoPoints ==
    SingleDraw => OneSegmentTo(GetVal(LastView, config.default_step).v)

\* C6 amended: a single Draw(s) from the initial turtle gives one strand of
\* exactly two points, (0,0,0) and (0,s,0), for every finite step length s
\* whose square is at least the dedup epsilon.
SingleDrawAboveThreshold ==
    LET s == GetVal(LastView, config.default_step).v IN
    (SingleDraw /\ s * s >= DedupEpsSq) => OneSegmentTo(s)

\* F(10) alone, interpreted to its end.
SingleDrawSeen ==
    /\ SingleDraw
    /\ LastView = Instr("F", <<F(10000)>>)

\* C7: Draw(10), Yaw(+1) by 90 degrees, Draw(10) from the initial turtle ends
\* at (-10, 10, 0); the same stream with Yaw(-1) ends at (10, 10, 0).
YawHandedness ==
    /\ (/\ Done
        /\ stream = <<Instr("F", <<F(10000)>>), Instr("+", <<F(90000)>>),
                      Instr("F", <<F(10000)>>)>>) =>
          /\ EndPoint = [fin |-> TRUE, v |-> <<-10000, 10000, 0>>]
          /\ turtle.position = EndPoint
    /\ (/\ Done
        /\ stream = <<Instr("F", <<F(10000)>>), Instr("-", <<F(90000)>>),
                      Instr("F", <<F(10000)>>)>>) =>
          /\ EndPoint = [fin |-> TRUE, v |-> <<10000, 10000, 0>>]
          /\ turtle.position = EndPoint

\* F(10) +(90) F(10), interpreted to its end.
YawLeftSeen ==
    /\ Done
    /\ stream = <<Instr("F", <<F(10000)>>), Instr("+", <<F(90000)>>),
                  Instr("F", <<F(10000)>>)>>

\* Some rotation instruction on record carries a non-finite parameter.
NonFiniteRotationFed ==
    \E k \in 1..Len(stream) :
        /\ KindAt(k) \in {"Yaw", "Pitch", "Roll"}
        /\ \E n \in 1..Len(stream[k].params) : ~stream[k].params[n].fin

\* C8 as stated: when a rotation instruction of the stream carries a
\* non-finite parameter, every point and every prop stored in the skeleton
\* still has a finite position and a finite rotation.
NonFiniteRotationNeverStored ==
    (Whole /\ NonFiniteRotationFed) =>
        /\ \A k \in 1..Len(skeleton.strands) :
              \A n \in 1..Len(skeleton.strands[k]) :
                  /\ skeleton.strands[k][n].position.fin
                  /\ skeleton.strands[k][n].rotation.fin
        /\ \A k \in 1..Len(skeleton.props) :
              /\ skeleton.props[k].position.fin
              /\ skeleton.props[k].rotation.fin

\* C9 as stated: SetMaterial, SetRoughness, SetMetallic and SetTexture with
\* no parameter leave their appearance field as it was.
SetterWithoutParamKeepsField ==
    (i > 0 /\ LastView.params = <<>>) =>
        /\ Ran("SetMaterial") => turtle.material_id = prev.turtle.material_id
        /\ Ran("SetRoughness") => turtle.roughness = prev.turtle.roughness
        /\ Ran("SetMetallic") => turtle.metallic = prev.turtle.metallic
        /\ Ran("SetTexture") => turtle.texture_id = prev.turtle.texture_id

\* C10: SetColor with one parameter g sets the colour (g,g,g,1), with three
\* (r,g,b,1), with four (r,g,b,a), and with any other count leaves the colour
\* as it was; no other turtle field, nor the stack, nor the skeleton changes.
SetColorByCount ==
    Ran("SetColor") =>
        LET ps == LastView.params IN
        /\ turtle.color =
              CASE Len(ps) = 1 -> <<ps[1], ps[1], ps[1], F(1000)>>
                [] Len(ps) = 3 -> <<ps[1], ps[2], ps[3], F(1000)>>
                [] Len(ps) = 4 -> <<ps[1], ps[2], ps[3], ps[4]>>
                [] OTHER -> prev.turtle.color
        /\ turtle = [prev.turtle EXCEPT !.color = turtle.color]
        /\ stack = prev.stack
        /\ skeleton = prev.skeleton

\* SetColor with two parameters on a turtle whose colour was set before, with
\* a strand and a saved state already there.
SetColorSeen ==
    /\ Ran("SetColor")
    /\ Len(LastView.params) = 2
    /\ prev.turtle.color # DefaultTurtle.color
    /\ prev.stack # <<>>

\* The appearance fields a skeleton point snapshots from the turtle.
Appearance(r) ==
    [color |-> r.color,
     material_id |-> r.material_id,
     roughness |-> r.roughness,
     metallic |-> r.metallic]

\* The Draw just interpreted appended the end point of its segment: the
\* segment runs between the last two points of the last strand.
DrewSegment ==
    /\ Ran("Draw")
    /\ skeleton # prev.skeleton
    /\ Len(Last(skeleton.strands)) >= 2

\* C11 as stated: the appearance the turtle holds when a Draw executes is the
\* appearance stored in the point its segment starts at and in the point it
\* ends at, also when the appearance changed after the start point was made.
DrawStoresAppearanceAtBothEnds ==
    DrewSegment =>
        LET strand == Last(skeleton.strands) IN
        /\ Appearance(strand[Len(strand)]) = Appearance(prev.turtle)
        /\ Appearance(strand[Len(strand) - 1]) = Appearance(prev.turtle)

\* The record carries the field, with this value.
Carries(rec, field, value) == field \in DOMAIN rec /\ rec[field] = value

\* C12 as stated: the prop a Spawn emits stores the turtle's position and
\* rotation at spawn time and a snapshot of its appearance, the colour and the
\* material id the turtle then holds (opaque white and 0 when never set).
PropSnapshotsAppearance ==
    Ran("Spawn") =>
        LET prop == Last(skeleton.props) IN
        /\ Len(skeleton.props) = Len(prev.skeleton.props) + 1
        /\ prop.position = prev.turtle.position
        /\ prop.rotation = prev.turtle.rotation
        /\ Carries(prop, "color", prev.turtle.color)
        /\ Carries(prop, "material_id", prev.turtle.material_id)

\* The fixed table of standard tokens as documented, the roll tokens being
\* the one-character backslash and the slash.
StandardTable ==
    << <<"F", Op("Draw", 0)>>, <<"f", Op("Move", 0)>>,
       <<"+", Op("Yaw", 1)>>, <<"-", Op("Yaw", -1)>>,
       <<"&", Op("Pitch", 1)>>, <<"^", Op("Pitch", -1)>>,
       <<"\\", Op("Roll", 1)>>, <<"/", Op("Roll", -1)>>,
       <<"|", Op("TurnAround", 0)>>, <<"$", Op("Vertical", 0)>>,
       <<"!", Op("SetWidth", 0)>>, <<"[", Op("Push", 0)>>,
       <<"]", Op("Pop", 0)>>, <<"~", Op("Spawn", 0)>>,
       <<"'", Op("SetColor", 0)>>, <<",", Op("SetMaterial", 0)>>,
       <<"#", Op("SetRoughness", 0)>>, <<"@", Op("SetMetallic", 0)>>,
       <<";", Op("SetTexture", 0)>> >>

\* The last call on record, which made `op_map` of `old_map`.
LastCall == calls[Len(calls)]

Populated == pc = "setup" /\ calls # <<>> /\ LastCall.call = "populate_standard_symbols"

\* The entries of the standard table whose token the interner resolves.
Resolved(interner) ==
    {k \in 1..Len(StandardTable) : StandardTable[k][1] \in DOMAIN interner}

\* C13 as stated: populate_standard_symbols inserts the entry of the fixed
\* table (the one-character backslash being Roll(+1)) for each standard token
\* the interner resolves, nothing for a token it does not resolve, and leaves
\* the entry of every other identifier as it was.
PopulateInsertsStandardTable ==
    Populated =>
        LET interner == LastCall.interner
            written == {interner[StandardTable[k][1]] : k \in Resolved(interner)}
        IN /\ \A k \in Resolved(interner) :
                 /\ interner[StandardTable[k][1]] \in DOMAIN op_map
                 /\ op_map[interner[StandardTable[k][1]]] = StandardTable[k][2]
           /\ \A id \in ((DOMAIN op_map) \cup (DOMAIN old_map)) \ written :
                 /\ id \in DOMAIN op_map
                 /\ id \in DOMAIN old_map
                 /\ op_map[id] = old_map[id]

\* Identifiers a table may hold.
TableIds ==
    SetOpIds \cup UNION {{interner[tok] : tok \in DOMAIN interner} : interner \in Interners}

\* The entries of the table of populate_standard_symbols that the call c
\* writes for the identifier id.
Writes(c, id) ==
    IF c.call = "set_op" THEN (IF c.sym_id = id THEN {0} ELSE {})
    ELSE {k \in 1..Len(Mappings) :
             /\ Mappings[k][1] \in DOMAIN c.interner
             /\ c.interner[Mappings[k][1]] = id}

\* The operation the call c gives the identifier id (when it writes it).
Given(c, id) ==
    IF c.call = "set_op" THEN c.op
    ELSE Mappings[CHOOSE k \in Writes(c, id) : TRUE][2]

\* The calls on record that wrote the identifier id.
Writers(id) == {n \in 1..Len(calls) : Writes(calls[n], id) # {}}

\* C19: after any sequence of set_op and populate_standard_symbols calls, an
\* identifier resolves to the operation given by the most recent call that
\* wrote it, and has no entry when no call wrote it.
LastWriteWins ==
    pc = "setup" =>
        \A id \in TableIds :
            IF Writers(id) = {}
            THEN id \notin DOMAIN op_map
            ELSE LET n == CHOOSE m \in Writers(id) : \A o \in Writers(id) : o <= m
                 IN /\ id \in DOMAIN op_map
                    /\ op_map[id] = Given(calls[n], id)

\* A standard population, then a set_op that overrides the entry of "F" and a
\* set_op for an identifier the population left without entry.
OverrideSeen ==
    /\ pc = "setup"
    /\ Len(calls) = 3
    /\ calls[1].call = "populate_standard_symbols"
    /\ calls[2] = SetOpCall(0, Op("Pop", 0))
    /\ 0 \in DOMAIN old_map
    /\ calls[3].call = "set_op"
    /\ calls[3].sym_id \notin DOMAIN old_map

At(x, y, z) == [fin |-> TRUE, v |-> <<x, y, z>>]

\* C14 as stated: with the standard table over an interner that holds the
\* one-character backslash and the slash, /(90) &(90) F(10) ends at
\* (-10, 0, 0), backslash(90) &(90) F(10) ends at (10, 0, 0), and &(90) F(10)
\* alone ends at z = 10.
RollChangesPitchAxis ==
    /\ (/\ Done
        /\ stream = <<Instr("/", <<F(90000)>>), Instr("&", <<F(90000)>>),
                      Instr("F", <<F(10000)>>)>>) =>
          EndPoint = At(-10000, 0, 0)
    /\ (/\ Done
        /\ stream = <<Instr("\\", <<F(90000)>>), Instr("&", <<F(90000)>>),
                      Instr("F", <<F(10000)>>)>>) =>
          EndPoint = At(10000, 0, 0)
    /\ (/\ Done
        /\ stream = <<Instr("&", <<F(90000)>>), Instr("F", <<F(10000)>>)>>) =>
          (EndPoint.fin /\ EndPoint.v[3] = 10000)

\* C15: F(10) &(90) F(10) ends at (0, 10, 10), F(10) ^(90) F(10) ends at
\* (0, 10, -10), and F(10) | F(5) ends at (0, 5, 0): Pitch turns about the
\* local X axis, TurnAround by half a turn about the local Z axis.
PitchAndTurnAround ==
    /\ (/\ Done
        /\ stream = <<Instr("F", <<F(10000)>>), Instr("&", <<F(90000)>>),
                      Instr("F", <<F(10000)>>)>>) =>
          /\ EndPoint = At(0, 10000, 10000)
          /\ turtle.rotation = FromAxisAngle(VecX, F(1))
    /\ (/\ Done
        /\ stream = <<Instr("F", <<F(10000)>>), Instr("^", <<F(90000)>>),
                      Instr("F", <<F(10000)>>)>>) =>
          /\ EndPoint = At(0, 10000, -10000)
          /\ turtle.rotation = FromAxisAngle(VecX, F(-1))
    /\ (/\ Done
        /\ stream = <<Instr("F", <<F(10000)>>), Instr("|", <<>>),
                      Instr("F", <<F(5000)>>)>>) =>
          /\ EndPoint = At(0, 5000, 0)
          /\ turtle.rotation = FromAxisAngle(VecZ, F(2))

\* One of the three streams, interpreted to its end.
PitchOrTurnAroundSeen ==
    /\ Done
    /\ Len(stream) = 3
    /\ stream[1] = Instr("F", <<F(10000)>>)
    /\ \/ /\ stream[2] \in {Instr("&", <<F(90000)>>), Instr("^", <<F(90000)>>)}
          /\ stream[3] = Instr("F", <<F(10000)>>)
       \/ /\ stream[2] = Instr("|", <<>>)
          /\ stream[3] = Instr("F", <<F(5000)>>)

\* The symbol of the instruction has no entry in the table, or is mapped to
\* Ignore.
Ignored(view) == view.sym \notin DOMAIN op_map \/ op_map[view.sym] = Ignore

\* C16: an instruction whose symbol has no entry in the operation table, or
\* is mapped to Ignore, leaves the turtle, the branch stack and the skeleton
\* as they were, and the loop goes on to the next instruction.
IgnoredHasNoEffect ==
    (pc = "loop" /\ i > 0 /\ Ignored(LastView)) =>
        /\ Work = prev
        /\ (i < len => ENABLED NextIgnore)

\* A symbol without entry, then a symbol mapped to Ignore that carries a
\* parameter, met with a strand and a saved state already there.
IgnoredSeen ==
    /\ pc = "loop"
    /\ Len(stream) = 2
    /\ stream[1].sym \notin DOMAIN op_map
    /\ stream[2].sym \in DOMAIN op_map
    /\ op_map[stream[2].sym] = Ignore
    /\ stream[2].params # <<>>
    /\ skeleton.strands # <<>>
    /\ stack # <<>>

\* C17: build_skeleton terminates; each step of its loop takes the next
\* index, one at a time; and when it has returned, also after an instruction
\* could not be fetched at index i < len, the skeleton it returns is the one
\* built from the i instructions before that index.
LoopTerminates ==
    /\ <>(pc = "done")
    /\ [][(i' = i \/ i' = i + 1) /\ i' <= len /\ (pc = "done" => pc' = "done")]_vars
    /\ [](pc = "done" =>
            /\ Len(stream) = i
            /\ Work = Run(stream, i)
            /\ Last(returned).skeleton = Run(stream, i).skeleton)

\* build_skeleton has returned after a failed fetch in the middle of a stream
\* that had built strands.
EarlyStopSeen ==
    /\ pc = "done"
    /\ 1 < i
    /\ i < len
    /\ Len(skeleton.strands) > 1

\* C18: two calls of build_skeleton on the same interpreter with identical
\* instruction streams return identical skeletons, whatever calls were made
\* before or between them.
SameStreamSameSkeleton ==
    \A j \in 1..Len(returned), k \in 1..Len(returned) :
        returned[j].stream = returned[k].stream =>
            returned[j].skeleton = returned[k].skeleton

\* Three calls have returned: the first and the third on the same stream,
\* the second on another one, none with an empty skeleton.
RepeatedCallSeen ==
    /\ Len(returned) = 3
    /\ returned[1].stream = returned[3].stream
    /\ returned[2].stream # returned[1].stream
    /\ returned[1].skeleton # EmptySkeleton
    /\ returned[2].skeleton.strands # <<>>

\* C20: a Move advances the position by the step along the local up axis, as
\* a Draw with the same parameter does, and changes nothing else of the
\* turtle; it starts a new strand whose only point is at the resulting
\* position, and every strand there was before it, the current one included,
\* is as it was (on an empty skeleton the start point makes a strand first).
MoveStartsStrand ==
    Ran("Move") =>
        LET step == GetVal(LastView, config.default_step)
            before == prev.skeleton.strands
            n == Len(before)
            asDraw == DrawMoveArm(config, Op("Draw", 0), LastView, prev)
        IN /\ turtle.position = asDraw.turtle.position
           /\ (prev.turtle.position.fin /\ prev.turtle.rotation.fin /\ step.fin) =>
                 turtle.position =
                    [fin |-> TRUE,
                     v |-> VecAdd(prev.turtle.position.v,
                                  VecScale(step.v, prev.turtle.rotation.m[2]))]
           /\ turtle = [prev.turtle EXCEPT !.position = turtle.position]
           /\ stack = prev.stack
           /\ skeleton.props = prev.skeleton.props
           /\ Positions(Last(skeleton.strands)) = <<turtle.position>>
           /\ IF n = 0
              THEN /\ Len(skeleton.strands) = 2
                   /\ Positions(skeleton.strands[1]) = <<prev.turtle.position>>
              ELSE /\ Len(skeleton.strands) = n + 1
                   /\ SubSeq(skeleton.strands, 1, n) = before

\* A Move of 0.003, less than the dedup distance, by a turned turtle whose
\* current strand holds a segment.
MoveSeen ==
    /\ Ran("Move")
    /\ LastView.params = <<F(3)>>
    /\ prev.skeleton.strands # <<>>
    /\ Len(Last(prev.skeleton.strands)) = 2
    /\ prev.turtle.rotation # QuatIdentity
    /\ prev.turtle.rotation.fin

\* The points a strand holds are those of an earlier strand, then maybe more.
Extends(strand, earlier) ==
    /\ Len(strand) >= Len(earlier)
    /\ SubSeq(strand, 1, Len(earlier)) = earlier

\* C21: a Draw executed while the skeleton has at least one strand leaves the
\* number of strands and every strand but the last as they were, and its end
\* point is appended to the last strand unless it lies within the dedup
\* distance of that strand's last point; on a skeleton without strand it
\* starts the one strand there is.
DrawContinuesStrand ==
    Ran("Draw") =>
        LET before == prev.skeleton.strands
            n == Len(before)
        IN IF n = 0
           THEN Len(skeleton.strands) = 1
           ELSE /\ Len(skeleton.strands) = n
                /\ SubSeq(skeleton.strands, 1, n - 1) = SubSeq(before, 1, n - 1)
                /\ skeleton.strands[n] =
                      IF FLess(DistanceSquared(Last(before[n]).position, turtle.position),
                               DedupEpsSq)
                      THEN before[n]
                      ELSE Append(before[n], Last(skeleton.strands[n]))
                /\ Extends(skeleton.strands[n], before[n])
                /\ Last(skeleton.strands[n]).position \in
                      {turtle.position, Last(before[n]).position}

\* A Draw that appended its end point to the second strand of a skeleton.
DrawAppendedSeen ==
    /\ Ran("Draw")
    /\ Len(prev.skeleton.strands) = 2
    /\ Len(skeleton.strands[2]) = Len(prev.skeleton.strands[2]) + 1

\* C22: SetWidth with a parameter makes it the turtle's width and without one
\* leaves the width as it was; every point an instruction adds to the
\* skeleton stores half the width the turtle has when it is emitted, and the
\* points stored before keep their radius.
RadiusIsHalfWidth ==
    /\ Ran("SetWidth") =>
          turtle.width = IF LastView.params # <<>>
                         THEN LastView.params[1]
                         ELSE prev.turtle.width
    /\ i > 0 =>
          \A k \in 1..Len(skeleton.strands) :
              \A n \in 1..Len(skeleton.strands[k]) :
                  IF k <= Len(prev.skeleton.strands) /\ n <= Len(prev.skeleton.strands[k])
                  THEN skeleton.strands[k][n].radius = prev.skeleton.strands[k][n].radius
                  ELSE /\ turtle.width.fin
                       /\ skeleton.strands[k][n].radius.fin
                       /\ 2 * skeleton.strands[k][n].radius.v = turtle.width.v

\* A Draw after the width was set to 0.2, on a strand whose earlier points
\* have the radius of the initial width.
WiderPointSeen ==
    /\ Ran("Draw")
    /\ turtle.width = F(200)
    /\ Len(Last(skeleton.strands)) = 3
    /\ Last(skeleton.strands)[2].radius = F(50)
    /\ Last(skeleton.strands)[3].radius = F(100)

\* The instruction just interpreted carries the standard token `tok`.
RanToken(tok) == i > 0 /\ LastView.sym = StdInterner[tok]

\* C23 as stated: the token ";" sets the turtle's UV-scale factor from
\* parameter 0, and every point stored in the skeleton carries the UV-scale
\* the turtle had when it was emitted, 1.0 as long as no ";" has set it.
UvScaleSetAndStored ==
    /\ (RanToken(";") /\ LastView.params # <<>>) =>
          turtle.uv_scale = LastView.params[1]
    /\ i > 0 =>
          \A k \in 1..Len(skeleton.strands) :
              \A n \in 1..Len(skeleton.strands[k]) :
                  (k > Len(prev.skeleton.strands) \/ n > Len(prev.skeleton.strands[k])) =>
                      Carries(skeleton.strands[k][n], "uv_scale", turtle.uv_scale)

\* The heading of the turtle before the last instruction, crossed with the
\* configured tropism direction.
HeadCrossTropism == Cross(Up(prev.turtle).v, config.tropism.v)

\* C24: a Move never bends the turtle, and a Draw does not when no tropism
\* direction is configured or the elasticity is 0, whatever the direction:
\* the rotation after the instruction is the rotation before it.
NoBendWhenTropismOff ==
    (\/ Ran("Move")
     \/ /\ Ran("Draw")
        /\ (~config.tropism.some \/ config.elasticity = F(0))) =>
        turtle.rotation = prev.turtle.rotation

\* A Move under a tropism that would bend a Draw: direction configured,
\* positive elasticity, heading not along the direction.
MoveUnderTropismSeen ==
    /\ Ran("Move")
    /\ config.tropism.some
    /\ config.elasticity = F(1)
    /\ prev.turtle.rotation.fin
    /\ HeadCrossTropism # <<0, 0, 0>>

\* The turtle after the last instruction is the turtle before it advanced
\* along its heading and then turned in world space about the normalized
\* cross product of heading and tropism direction by elasticity times the
\* magnitude of that cross product.
AdvancedThenBent ==
    LET mag == Length(HeadCrossTropism)
        axis == <<HeadCrossTropism[1] \div mag, HeadCrossTropism[2] \div mag,
                  HeadCrossTropism[3] \div mag>>
        step == GetVal(LastView, config.default_step)
    IN /\ turtle.rotation =
             QuatMul(FromAxisAngle(axis, F(config.elasticity.v * mag)),
                     prev.turtle.rotation)
       /\ turtle.position =
             [fin |-> TRUE,
              v |-> VecAdd(prev.turtle.position.v,
                           VecScale(step.v, Up(prev.turtle).v))]

\* A Draw of finite step from a finite rotation whose heading has a nonzero
\* cross product with the configured tropism direction.
DrawAcrossTropism ==
    /\ Ran("Draw")
    /\ config.tropism.some
    /\ prev.turtle.rotation.fin
    /\ GetVal(LastView, config.default_step).fin
    /\ HeadCrossTropism # <<0, 0, 0>>

\* C25 as stated: with a tropism direction and a nonzero elasticity, positive
\* or negative, a Draw whose heading has a cross product with the direction
\* of magnitude above the threshold turns the turtle about that normalized
\* axis in world space (the turn goes on the left of the rotation) by
\* elasticity times the magnitude, after an advance along the heading it had
\* before the bend.
TropismBendsForNonzeroElasticity ==
    (DrawAcrossTropism /\ config.elasticity # F(0)) => AdvancedThenBent

\* C25 amended: the bend happens for a positive elasticity only; under a
\* negative elasticity, as under 0, the Draw advances and leaves the rotation
\* as it was.
TropismBendsForPositiveElasticity ==
    /\ (DrawAcrossTropism /\ config.elasticity.v > 0) => AdvancedThenBent
    /\ (DrawAcrossTropism /\ config.elasticity.v < 0) =>
            turtle.rotation = prev.turtle.rotation

\* A Draw bent about an axis that does not commute with the rotation the
\* turtle had: heading turned away from Y before the Draw.
BentDrawSeen ==
    /\ DrawAcrossTropism
    /\ config.elasticity = F(1)
    /\ prev.turtle.rotation # QuatIdentity
    /\ turtle.rotation # prev.turtle.rotation

\* The local X axis of a turtle in world space.
LocalX(t) == MatVec(t.rotation.m, VecX)

\* The heading before the last instruction is along world Y, or is not a
\* direction at all (non-finite rotation).
WasVertical ==
    ~prev.turtle.rotation.fin \/ Cross(VecY, Up(prev.turtle).v) = <<0, 0, 0>>

\* C26: Vertical leaves the rotation as it was when the heading is parallel
\* to world Y; otherwise the new rotation has the heading it had before as
\* local up and a local X axis with zero world-Y component. Either way the
\* position, width, appearance, stack and skeleton are unchanged.
VerticalAligns ==
    Ran("Vertical") =>
        /\ IF WasVertical
           THEN turtle.rotation = prev.turtle.rotation
           ELSE /\ turtle.rotation.fin
                /\ Up(turtle) = Up(prev.turtle)
                /\ LocalX(turtle)[2] = 0
        /\ turtle.position = prev.turtle.position
        /\ turtle.width = prev.turtle.width
        /\ Appearance(turtle) = Appearance(prev.turtle)
        /\ stack = prev.stack
        /\ skeleton = prev.skeleton

\* A Vertical that had a twisted frame to align: heading off world Y and
\* local X not horizontal before it.
TwistedAlignedSeen ==
    /\ Ran("Vertical")
    /\ ~WasVertical
    /\ LocalX(prev.turtle)[2] # 0
    /\ turtle.rotation # prev.turtle.rotation

\* Pushes less Pops executed on a non-empty stack among the first n
\* instructions on record.
RECURSIVE Depth(_)
Depth(n) ==
    IF n = 0 THEN 0
    ELSE CASE KindAt(n) = "Push" -> Depth(n - 1) + 1
           [] KindAt(n) = "Pop" /\ Depth(n - 1) > 0 -> Depth(n - 1) - 1
           [] OTHER -> Depth(n - 1)

\* C27: the branch stack is last-in first-out. The stack depth is the number
\* of Pushes less the number of Pops executed on a non-empty stack, and a Pop
\* on a non-empty stack closes the most recent Push not yet popped: the
\* turtle (position, rotation, width, appearance) and the stack are what they
\* were just before that Push, whatever was drawn, turned, set, pushed and
\* popped in between.
StackIsLifo ==
    /\ Len(stack) = Depth(Len(stream))
    /\ (Ran("Pop") /\ prev.stack # <<>>) =>
          \E j \in 1..(Len(stream) - 1) :
              /\ Closes(j, Len(stream))
              /\ turtle = Run(stream, j - 1).turtle
              /\ stack = Run(stream, j - 1).stack

\* A Pop that closes an outer Push over a nested balanced pair and a change
\* of the turtle, with the outer Push not the first thing saved or the turtle
\* changed since.
NestedPopSeen ==
    /\ Ran("Pop")
    /\ prev.stack # <<>>
    /\ turtle # prev.turtle
    /\ \E j \in 1..(Len(stream) - 1) :
          /\ Closes(j, Len(stream))
          /\ \E a, b \in (j + 1)..(Len(stream) - 1) : Closes(a, b)

\* C28: the skeleton is append-only. An instruction never lowers the number
\* of strands, and raises it only if it is a Push, a Pop on a non-empty
\* stack, a Move, or a Draw on a skeleton without strand; every strand but
\* the last is left exactly as it was, the last one keeps the points it had
\* in their order at its front, and keeps exactly those once a later strand
\* has been started.
SkeletonAppendOnly ==
    i > 0 =>
        LET before == prev.skeleton.strands
            after == skeleton.strands
            n == Len(before)
        IN /\ Len(after) >= n
           /\ Len(after) > n =>
                 \/ Ran("Push")
                 \/ Ran("Pop") /\ prev.stack # <<>>
                 \/ Ran("Move")
                 \/ Ran("Draw") /\ n = 0
           /\ \A k \in 1..(n - 1) : after[k] = before[k]
           /\ n > 0 => Extends(after[n], before[n])
           /\ (n > 0 /\ Len(after) > n) => after[n] = before[n]

\* A Draw that appended its end point to the last strand while an earlier
\* strand was already closed, after which a Push started a later strand.
ClosedStrandsKeptSeen ==
    /\ Ran("Push")
    /\ Len(prev.skeleton.strands) >= 2
    /\ Len(Last(prev.skeleton.strands)) >= 2
    /\ Len(skeleton.strands) = Len(prev.skeleton.strands) + 1

\* The operations that turn the turtle or set its width or appearance.
TurnsAndSetters ==
    {"Yaw", "Pitch", "Roll", "TurnAround", "Vertical", "SetWidth", "SetColor",
     "SetMaterial", "SetRoughness", "SetMetallic", "SetTexture"}

\* C29: a rotation (Yaw, Pitch, Roll, TurnAround, Vertical) or a setter of
\* width or appearance changes neither the position nor the stack nor the
\* skeleton; a Spawn leaves turtle, stack and strands as they were and adds
\* exactly one prop at the end of the prop list, whose identifier is
\* parameter 0 (as an unsigned integer) when the instruction has one and the
\* default carried by the operation otherwise.
TurnsSettersAndSpawnFrame ==
    /\ (i > 0 /\ KindAt(Len(stream)) \in TurnsAndSetters) =>
          /\ turtle.position = prev.turtle.position
          /\ stack = prev.stack
          /\ skeleton = prev.skeleton
    /\ Ran("Spawn") =>
          LET n == Len(prev.skeleton.props) IN
          /\ turtle = prev.turtle
          /\ stack = prev.stack
          /\ skeleton.strands = prev.skeleton.strands
          /\ Len(skeleton.props) = n + 1
          /\ SubSeq(skeleton.props, 1, n) = prev.skeleton.props
          /\ skeleton.props[n + 1].surface_id =
                IF LastView.params # <<>>
                THEN LastView.params[1].v \div 1000
                ELSE Lookup(op_map, LastView.sym).arg

\* A Spawn with an identifier parameter on a skeleton that already holds a
\* strand and a prop of another identifier.
SecondSpawnSeen ==
    /\ Ran("Spawn")
    /\ LastView.params # <<>>
    /\ prev.skeleton.strands # <<>>
    /\ prev.skeleton.props # <<>>
    /\ Last(prev.skeleton.props).surface_id # Last(skeleton.props).surface_id

====
